---- MODULE Spec2Model ----
(***************************************************************************)
(* Model of examples/nmnist.py: the augmentation pipeline builder          *)
(* (create_data_aug), the experiment namer (create_data_aug_name), the     *)
(* scalar logger (log), the training and evaluation steps (train, test)    *)
(* and the epoch loop of main.                                             *)
(*                                                                         *)
(* Numbers.  The five augmentation options are floats.  They are modelled  *)
(* as integers counting units of 1e-5, so that the threshold 1e-4 is the   *)
(* integer 10 and "%0.2f" / "%f" can be computed digit by digit.  An       *)
(* option that argparse leaves at None is the empty tuple, an option set   *)
(* to v is the one-element tuple <<v>>.                                    *)
(*                                                                         *)
(* Interpreter.  The script is modelled under Python 3, where comparing    *)
(* None with a float raises TypeError and a reference to an unbound global *)
(* name raises NameError.                                                  *)
(***************************************************************************)
EXTENDS Integers, Sequences, FiniteSets, TLC

VARIABLES
    args,            \* the parsed command line (argparse Namespace)
    num_batches,     \* len(train_loader): batches one pass over the train source yields
    test_batches,    \* len(test_loader):  batches one pass over the test source yields
    pc,              \* position of main: "start", "loop", "train", "test", "done", "raised"
    exc,             \* the exception that ended the run ("" while none was raised)
    epoch,           \* loop variable of main's for statement (0 before the first epoch)
    batch_idx,       \* loop variable of train's for statement (next index to be yielded)
    test_idx,        \* number of test batches the running call of test has consumed
    correct,         \* test's accumulator of correctly classified samples
    global_step,     \* module global global_step
    log_writer,      \* the add_scalar calls received by the SummaryWriter, in order
    optimizer_steps, \* number of optimizer.step() calls (parameter updates) so far
    train_transform, \* create_data_aug(args, train=True) as handed to the train dataset
    test_transform,  \* create_data_aug(args, train=False) as handed to the test dataset
    logdir,          \* path suffix the SummaryWriter was opened with
    train_calls,     \* calls of train that have returned
    test_calls,      \* calls of test that have returned
    aug_called,      \* which of the builder / namer calls have been made (pure-function spec)
    aug_train,       \* result of create_data_aug(args, True)  once called
    aug_test,        \* result of create_data_aug(args, False) once called
    aug_name         \* result of create_data_aug_name(args)   once called (its pieces)

vars == <<args, num_batches, test_batches, pc, exc, epoch, batch_idx, test_idx, correct,
          global_step, log_writer, optimizer_steps, train_transform, test_transform,
          logdir, train_calls, test_calls, aug_called, aug_train, aug_test, aug_name>>

driver_vars == <<num_batches, test_batches, pc, exc, epoch, batch_idx, test_idx, correct,
                 global_step, log_writer, optimizer_steps, train_transform,
                 test_transform, logdir, train_calls, test_calls>>

aug_vars == <<aug_called, aug_train, aug_test, aug_name>>

(***************************************************************************)
(* Bounds of the model.                                                    *)
(***************************************************************************)
MaxEpochs == 2
MaxBatches == 3
MaxTestBatches == 2
MaxLogInterval == 3

(***************************************************************************)
(* Option values.                                                          *)
(***************************************************************************)
None == <<>>

Some(v) == <<v>>

Val(o) == o[1]

\* 1e-4 in units of 1e-5
EPS == 10

\* 0.0, 1e-4 (the threshold itself), 0.00011, 0.296 and 0.30, in units of 1e-5.
\* No value lies exactly halfway between two hundredths.
Values == {0, 10, 11, 29600, 30000}

OptionValues == {None} \cup {Some(v) : v \in Values}

\* The values the epoch-loop specification draws the options from: unset, or 0.30.
DriverOptionValues == {None, Some(30000)}

DefaultEpochs == 10

DefaultLogInterval == 10

(***************************************************************************)
(* printf-style formatting of a value given in units of 1e-5.              *)
(***************************************************************************)
Digits == <<"0", "1", "2", "3", "4", "5", "6", "7", "8", "9">>

Digit(d) == Digits[d + 1]

RECURSIVE IntStr(_)
IntStr(n) == IF n < 10 THEN Digit(n) ELSE IntStr(n \div 10) \o Digit(n % 10)

RECURSIVE FracStr(_, _)
FracStr(n, width) ==
    IF width = 0 THEN "" ELSE FracStr(n \div 10, width - 1) \o Digit(n % 10)

\* "%0.2f" % v : rounded to the nearest hundredth
Format2f(v) ==
    LET h == (v + 500) \div 1000
    IN  IntStr(h \div 100) \o "." \o FracStr(h % 100, 2)

\* "%f" % v : six decimals
Format6f(v) ==
    LET m == v * 10
    IN  IntStr(m \div 1000000) \o "." \o FracStr(m % 1000000, 6)

(***************************************************************************)
(* create_data_aug                                                         *)
(***************************************************************************)
NoExc == ""

\* x > 1e-4 for an option x: "True", "False", or the TypeError of None > float
PyGt(o) ==
    IF o = None THEN "TypeError" ELSE IF Val(o) > EPS THEN "True" ELSE "False"

Step(name, param) == <<name, param>>

Volume == Step("Volume", "discrete_xy=True")

NumpyAsType == Step("NumpyAsType", "float32")

Raise(s, e) == [s EXCEPT !.exc = e]

Include(s, step, line) ==
    [s EXCEPT !.augmentations = Append(@, step), !.printed = Append(@, line)]

\* Mutant: the drop block without the `and train` conjunct.
DropBlock_NoTrainGuard(s, a, train) ==
    IF s.exc # NoExc THEN s
    ELSE IF a.drop_probability # None
    THEN CASE PyGt(a.drop_probability) = "TypeError" -> Raise(s, "TypeError")
           [] PyGt(a.drop_probability) = "True" ->
                Include(s, Step("DropEvent", Val(a.drop_probability)),
                        "- DropEvent : " \o Format6f(Val(a.drop_probability)))
           [] OTHER -> s
    ELSE s

\* lines 96-99
DropBlock(s, a, train) ==
    IF s.exc # NoExc THEN s
    ELSE IF a.drop_probability # None /\ train
    THEN CASE PyGt(a.drop_probability) = "TypeError" -> Raise(s, "TypeError")
           [] PyGt(a.drop_probability) = "True" ->
                Include(s, Step("DropEvent", Val(a.drop_probability)),
                        "- DropEvent : " \o Format6f(Val(a.drop_probability)))
           [] OTHER -> s
    ELSE s

\* lines 101-104
FlipLRBlock(s, a, train) ==
    IF s.exc # NoExc THEN s
    ELSE IF a.flip_lr_probability # None /\ train
    THEN CASE PyGt(a.flip_lr_probability) = "TypeError" -> Raise(s, "TypeError")
           [] PyGt(a.flip_lr_probability) = "True" ->
                Include(s, Step("FlipLR", Val(a.flip_lr_probability)),
                        "- FlipLR : " \o Format6f(Val(a.flip_lr_probability)))
           [] OTHER -> s
    ELSE s

\* lines 106-109: the inner test reads flip_lr_probability
FlipUDBlock(s, a, train) ==
    IF s.exc # NoExc THEN s
    ELSE IF a.flip_ud_probability # None /\ train
    THEN CASE PyGt(a.flip_lr_probability) = "TypeError" -> Raise(s, "TypeError")
           [] PyGt(a.flip_lr_probability) = "True" ->
                Include(s, Step("FlipUD", Val(a.flip_ud_probability)),
                        "- FlipUD : " \o Format6f(Val(a.flip_ud_probability)))
           [] OTHER -> s
    ELSE s

\* lines 111-114
RefractoryBlock(s, a, train) ==
    IF s.exc # NoExc THEN s
    ELSE IF a.refractory_period # None /\ train
    THEN CASE PyGt(a.refractory_period) = "TypeError" -> Raise(s, "TypeError")
           [] PyGt(a.refractory_period) = "True" ->
                Include(s, Step("RefractoryPeriod", Val(a.refractory_period)),
                        "- RefractoryPeriod : " \o Format6f(Val(a.refractory_period)))
           [] OTHER -> s
    ELSE s

\* lines 116-119: the append is made on the unbound name `arguments`
TimeJitterBlock(s, a, train) ==
    IF s.exc # NoExc THEN s
    ELSE IF a.time_jitter # None /\ train
    THEN CASE PyGt(a.time_jitter) = "TypeError" -> Raise(s, "TypeError")
           [] PyGt(a.time_jitter) = "True" -> Raise(s, "NameError")
           [] OTHER -> s
    ELSE s

\* Mutant: the dtype cast is forgotten.
FixedBlock_NoCast(s) ==
    IF s.exc # NoExc THEN s ELSE Include(s, Volume, "- Volume")

\* Mutant: the cast is appended before the binning step.
FixedBlock_Swapped(s) ==
    IF s.exc # NoExc THEN s
    ELSE Include(Include(s, NumpyAsType, "- NumpyAsType"), Volume, "- Volume")

\* lines 121-124
FixedBlock(s) ==
    IF s.exc # NoExc THEN s
    ELSE Include(Include(s, Volume, "- Volume"), NumpyAsType, "- NumpyAsType")

\* The outcome of one call: exc = NoExc and augmentations is the list handed
\* to T.Compose, or exc names the exception that left the function.
create_data_aug(a, train) ==
    LET s0 == [augmentations |-> <<>>, printed |-> <<>>, exc |-> NoExc]
        s1 == DropBlock(s0, a, train)
        s2 == FlipLRBlock(s1, a, train)
        s3 == FlipUDBlock(s2, a, train)
        s4 == RefractoryBlock(s3, a, train)
        s5 == TimeJitterBlock(s4, a, train)
    IN  FixedBlock(s5)

(***************************************************************************)
(* create_data_aug_name                                                    *)
(***************************************************************************)
\* Mutant: the namer copies the builder's magnitude test.
Segment_Magnitude(tag, o) ==
    IF o # None /\ Val(o) > EPS
    THEN <<[tag |-> tag, text |-> Format2f(Val(o))]>>
    ELSE <<>>

\* one `if ... is not None: name += tag + "%0.2f" % value` statement
Segment(tag, o) ==
    IF o # None THEN <<[tag |-> tag, text |-> Format2f(Val(o))]>> ELSE <<>>

\* The returned string, as the pieces `name +=` appended to "", in order.
create_data_aug_name(a) ==
    Segment("_dp_", a.drop_probability)
    \o Segment("_flr_", a.flip_lr_probability)
    \o Segment("_fud_", a.flip_ud_probability)
    \o Segment("_rp_", a.refractory_period)
    \o Segment("_tj_", a.time_jitter)

\* The characters of a string given by its pieces.
RECURSIVE NameText(_)
NameText(parts) ==
    IF parts = <<>> THEN ""
    ELSE parts[1].tag \o parts[1].text \o NameText(Tail(parts))

(***************************************************************************)
(* The builder and the namer as pure functions: every configuration of the *)
(* five options, each call made once, in any order.                        *)
(***************************************************************************)
NotCalled == [augmentations |-> <<>>, printed |-> <<>>, exc |-> "not called"]

AugConfigs ==
    [drop_probability : OptionValues, flip_lr_probability : OptionValues,
     flip_ud_probability : OptionValues, refractory_period : OptionValues,
     time_jitter : OptionValues,
     epochs : {DefaultEpochs}, log_interval : {DefaultLogInterval}]

DriverIdle ==
    /\ num_batches = 1
    /\ test_batches = 1
    /\ pc = "start"
    /\ exc = NoExc
    /\ epoch = 0
    /\ batch_idx = 0
    /\ test_idx = 0
    /\ correct = 0
    /\ global_step = 0
    /\ log_writer = <<>>
    /\ optimizer_steps = 0
    /\ train_transform = NotCalled
    /\ test_transform = NotCalled
    /\ logdir = ""
    /\ train_calls = 0
    /\ test_calls = 0

AugIdle ==
    /\ aug_called = {}
    /\ aug_train = NotCalled
    /\ aug_test = NotCalled
    /\ aug_name = <<>>

AugInit ==
    /\ args \in AugConfigs
    /\ DriverIdle
    /\ AugIdle

CallBuildTrain ==
    /\ "train" \notin aug_called
    /\ aug_called' = aug_called \cup {"train"}
    /\ aug_train' = create_data_aug(args, TRUE)
    /\ UNCHANGED <<args, driver_vars, aug_test, aug_name>>

CallBuildTest ==
    /\ "test" \notin aug_called
    /\ aug_called' = aug_called \cup {"test"}
    /\ aug_test' = create_data_aug(args, FALSE)
    /\ UNCHANGED <<args, driver_vars, aug_train, aug_name>>

CallName ==
    /\ "name" \notin aug_called
    /\ aug_called' = aug_called \cup {"name"}
    /\ aug_name' = create_data_aug_name(args)
    /\ UNCHANGED <<args, driver_vars, aug_train, aug_test>>

AugNext == CallBuildTrain \/ CallBuildTest \/ CallName

AugSpec == AugInit /\ [][AugNext]_vars

(***************************************************************************)
(* log, train, test and the epoch loop of main.                            *)
(*                                                                         *)
(* A scalar handed to the SummaryWriter is recorded by what it was         *)
(* computed from: the training loss of batch b of epoch e is <<e, b>>, the *)
(* mean test loss is <<n>> for the n parameter updates the evaluated model *)
(* has received, and the accuracy is <<correct, total>>.                   *)
(***************************************************************************)
\* samples in one test batch
TestBatchSize == 1

DriverConfigs ==
    [drop_probability : DriverOptionValues, flip_lr_probability : DriverOptionValues,
     flip_ud_probability : DriverOptionValues, refractory_period : DriverOptionValues,
     time_jitter : DriverOptionValues,
     epochs : 0..MaxEpochs, log_interval : 0..MaxLogInterval]

Init ==
    /\ args \in DriverConfigs
    /\ num_batches \in 1..MaxBatches
    /\ test_batches \in 1..MaxTestBatches
    /\ pc = "start"
    /\ exc = NoExc
    /\ epoch = 0
    /\ batch_idx = 0
    /\ test_idx = 0
    /\ correct = 0
    /\ global_step = 0
    /\ log_writer = <<>>
    /\ optimizer_steps = 0
    /\ train_transform = NotCalled
    /\ test_transform = NotCalled
    /\ logdir = ""
    /\ train_calls = 0
    /\ test_calls = 0
    /\ AugIdle

Scalar(k, v) == [k |-> k, v |-> v]

\* log(scalars, mode): one add_scalar call per scalar, at the current global_step
log(scalars, mode) ==
    log_writer \o [i \in 1..Len(scalars) |->
                     [tag |-> mode \o "/" \o scalars[i].k, value |-> scalars[i].v,
                      step |-> global_step]]

\* Mutant: the interval test is made on the one-based batch number.
ShouldLog_OneBased(idx, interval) == (idx + 1) % interval = 0

\* batch_idx % args.log_interval == 0
ShouldLog(idx, interval) == idx % interval = 0

\* Mutant: the counter is advanced on every batch.
NextGlobalStep_EveryBatch(logged) == global_step + 1

\* global_step += 1, inside the `if` of the logging
NextGlobalStep(logged) == IF logged THEN global_step + 1 ELSE global_step

\* An exception leaves main: the process ends with a traceback.
Abort(e) ==
    /\ pc' = "raised"
    /\ exc' = e

\* main up to the opening of the SummaryWriter
MainSetup ==
    /\ pc = "start"
    /\ LET tr == create_data_aug(args, TRUE)
           te == create_data_aug(args, FALSE)
       IN  IF tr.exc # NoExc
           THEN /\ Abort(tr.exc)
                /\ UNCHANGED <<train_transform, test_transform, logdir>>
           ELSE IF te.exc # NoExc
           THEN /\ Abort(te.exc)
                /\ train_transform' = tr
                /\ UNCHANGED <<test_transform, logdir>>
           ELSE /\ train_transform' = tr
                /\ test_transform' = te
                /\ logdir' = "../logs/name" \o NameText(create_data_aug_name(args))
                /\ pc' = "loop"
                /\ exc' = NoExc
    /\ UNCHANGED <<args, num_batches, test_batches, epoch, batch_idx, test_idx, correct,
                   global_step, log_writer, optimizer_steps, train_calls, test_calls,
                   aug_vars>>

\* for epoch in range(1, args.epochs + 1): the next epoch calls train
NextEpoch ==
    /\ pc = "loop"
    /\ epoch < args.epochs
    /\ epoch' = epoch + 1
    /\ pc' = "train"
    /\ batch_idx' = 0
    /\ UNCHANGED <<args, num_batches, test_batches, exc, test_idx, correct, global_step,
                   log_writer, optimizer_steps, train_transform, test_transform, logdir,
                   train_calls, test_calls, aug_vars>>

\* the range is exhausted: main returns
Finish ==
    /\ pc = "loop"
    /\ epoch >= args.epochs
    /\ pc' = "done"
    /\ UNCHANGED <<args, num_batches, test_batches, exc, epoch, batch_idx, test_idx,
                   correct, global_step, log_writer, optimizer_steps, train_transform,
                   test_transform, logdir, train_calls, test_calls, aug_vars>>

\* one iteration of train's loop
TrainBatch ==
    /\ pc = "train"
    /\ batch_idx < num_batches
    /\ optimizer_steps' = optimizer_steps + 1
    /\ IF args.log_interval = 0
       THEN /\ Abort("ZeroDivisionError")
            /\ UNCHANGED <<batch_idx, log_writer, global_step>>
       ELSE LET logged == ShouldLog(batch_idx, args.log_interval)
            IN  /\ log_writer' = IF logged
                                 THEN log(<<Scalar("loss", <<epoch, batch_idx>>)>>, "train")
                                 ELSE log_writer
                /\ global_step' = NextGlobalStep(logged)
                /\ batch_idx' = batch_idx + 1
                /\ UNCHANGED <<pc, exc>>
    /\ UNCHANGED <<args, num_batches, test_batches, epoch, test_idx, correct,
                   train_transform, test_transform, logdir, train_calls, test_calls,
                   aug_vars>>

\* the train source is exhausted: train returns and main calls test
TrainReturn ==
    /\ pc = "train"
    /\ batch_idx = num_batches
    /\ train_calls' = train_calls + 1
    /\ pc' = "test"
    /\ batch_idx' = 0
    /\ test_idx' = 0
    /\ correct' = 0
    /\ UNCHANGED <<args, num_batches, test_batches, exc, epoch, global_step, log_writer,
                   optimizer_steps, train_transform, test_transform, logdir, test_calls,
                   aug_vars>>

\* one iteration of test's loop; c of the batch's samples are classified correctly
TestBatch ==
    /\ pc = "test"
    /\ test_idx < test_batches
    /\ \E c \in 0..TestBatchSize : correct' = correct + c
    /\ test_idx' = test_idx + 1
    /\ UNCHANGED <<args, num_batches, test_batches, pc, exc, epoch, batch_idx,
                   global_step, log_writer, optimizer_steps, train_transform,
                   test_transform, logdir, train_calls, test_calls, aug_vars>>

\* Mutant: test advances the counter after logging, as train does.
TestReturn_AdvancesStep ==
    /\ pc = "test"
    /\ test_idx = test_batches
    /\ log_writer' = log(<<Scalar("loss", <<optimizer_steps>>),
                           Scalar("accuracy", <<correct, test_batches * TestBatchSize>>)>>,
                         "test")
    /\ global_step' = global_step + 1
    /\ test_calls' = test_calls + 1
    /\ pc' = "loop"
    /\ test_idx' = 0
    /\ correct' = 0
    /\ UNCHANGED <<args, num_batches, test_batches, exc, epoch, batch_idx,
                   optimizer_steps, train_transform, test_transform, logdir, train_calls,
                   aug_vars>>

\* the test source is exhausted: the means are logged and test returns
TestReturn ==
    /\ pc = "test"
    /\ test_idx = test_batches
    /\ log_writer' = log(<<Scalar("loss", <<optimizer_steps>>),
                           Scalar("accuracy", <<correct, test_batches * TestBatchSize>>)>>,
                         "test")
    /\ test_calls' = test_calls + 1
    /\ pc' = "loop"
    /\ test_idx' = 0
    /\ correct' = 0
    /\ UNCHANGED <<args, num_batches, test_batches, exc, epoch, batch_idx, global_step,
                   optimizer_steps, train_transform, test_transform, logdir, train_calls,
                   aug_vars>>

\* a collaborator (dataset, device, model, optimizer, logging sink) raises
CollaboratorFails ==
    /\ pc \in {"start", "train", "test"}
    /\ Abort("CollaboratorError")
    /\ UNCHANGED <<args, num_batches, test_batches, epoch, batch_idx, test_idx, correct,
                   global_step, log_writer, optimizer_steps, train_transform,
                   test_transform, logdir, train_calls, test_calls, aug_vars>>

Next ==
    \/ MainSetup
    \/ NextEpoch
    \/ Finish
    \/ TrainBatch
    \/ TrainReturn
    \/ TestBatch
    \/ TestReturn
    \/ CollaboratorFails

Spec == Init /\ [][Next]_vars

\* The interpreter runs the single thread until main returns or raises.
FairSpec == Spec /\ WF_vars(Next)

(***************************************************************************)
(* Vocabulary of the claims about the builder and the namer.               *)
(***************************************************************************)
\* The five optional augmentations: option, step and name tag, in the fixed order.
Optional ==
    << [key |-> "drop_probability",    step |-> "DropEvent",        tag |-> "_dp_"],
       [key |-> "flip_lr_probability", step |-> "FlipLR",           tag |-> "_flr_"],
       [key |-> "flip_ud_probability", step |-> "FlipUD",           tag |-> "_fud_"],
       [key |-> "refractory_period",   step |-> "RefractoryPeriod", tag |-> "_rp_"],
       [key |-> "time_jitter",         step |-> "TimeJitter",       tag |-> "_tj_"] >>

OptionalIdx == 1..Len(Optional)

Returned(r) == r.exc = NoExc

\* r is a returned pipeline that holds a step called name
Includes(r, name) ==
    Returned(r) /\ \E i \in 1..Len(r.augmentations) : r.augmentations[i][1] = name

Present(o) == o # None

Exceeds(o) == Present(o) /\ Val(o) > EPS

AllUnset(a) == \A i \in OptionalIdx : ~Present(a[Optional[i].key])

AllDisabled(a) == \A i \in OptionalIdx : ~Exceeds(a[Optional[i].key])

TwoStep(r) == Returned(r) /\ r.augmentations = <<Volume, NumpyAsType>>

\* position of a step name in the order the claims fix (0 for an unknown name)
Rank(name) ==
    CASE name = "DropEvent" -> 1
      [] name = "FlipLR" -> 2
      [] name = "FlipUD" -> 3
      [] name = "RefractoryPeriod" -> 4
      [] name = "TimeJitter" -> 5
      [] name = "Volume" -> 6
      [] name = "NumpyAsType" -> 7
      [] OTHER -> 0

\* C1 (as claimed): a call of create_data_aug includes an optional step in the
\* pipeline it returns if and only if train is true and the step's own option
\* is present and exceeds 1e-4.
C1_IncludedIffOwnOptionEnabled ==
    /\ "train" \in aug_called =>
         \A i \in OptionalIdx :
            Includes(aug_train, Optional[i].step) <=> Exceeds(args[Optional[i].key])
    /\ "test" \in aug_called =>
         \A i \in OptionalIdx : ~Includes(aug_test, Optional[i].step)

\* C2 (as claimed): create_data_aug never raises; for every configuration and
\* both values of train the call returns a pipeline.
C2_BuilderNeverRaises ==
    /\ "train" \in aug_called => Returned(aug_train)
    /\ "test" \in aug_called => Returned(aug_test)

\* C3 (as claimed): when every option is unset or at most 1e-4, both calls of
\* create_data_aug return [Volume, NumpyAsType] and the name is the empty string.
C3_DisabledGivesTwoStepAndEmptyName ==
    AllDisabled(args) =>
        /\ "train" \in aug_called => TwoStep(aug_train)
        /\ "test" \in aug_called => TwoStep(aug_test)
        /\ "name" \in aug_called => NameText(aug_name) = ""

\* C3 (amended): when every option is unset, both calls of create_data_aug
\* return [Volume, NumpyAsType] and the name is the empty string.
C3_UnsetGivesTwoStepAndEmptyName ==
    AllUnset(args) =>
        /\ "train" \in aug_called => TwoStep(aug_train)
        /\ "test" \in aug_called => TwoStep(aug_test)
        /\ "name" \in aug_called => NameText(aug_name) = ""

C3_Witness ==
    /\ AllUnset(args)
    /\ aug_called = {"train", "test", "name"}
    /\ aug_train = aug_test
    /\ Len(aug_train.augmentations) = 2
    /\ NameText(aug_name) = ""

\* C4: create_data_aug(args, train=False) returns exactly [Volume, NumpyAsType]
\* whatever the presence and magnitude of the five options.
C4_TestPipelineHasNoOptionalStep ==
    "test" \in aug_called =>
        /\ TwoStep(aug_test)
        /\ \A i \in OptionalIdx : ~Includes(aug_test, Optional[i].step)

C4_Witness ==
    /\ "test" \in aug_called
    /\ \A i \in OptionalIdx : Exceeds(args[Optional[i].key])
    /\ TwoStep(aug_test)

\* C5: the name holds exactly one segment for each option that is present,
\* whatever its magnitude, none for an absent option, and the segments come
\* in the order _dp_, _flr_, _fud_, _rp_, _tj_.
C5_NameHasOneSegmentPerPresentOption ==
    "name" \in aug_called =>
        LET present == SelectSeq(Optional, LAMBDA o : Present(args[o.key]))
        IN  /\ Len(aug_name) = Len(present)
            /\ \A i \in 1..Len(aug_name) : aug_name[i].tag = present[i].tag
            /\ \A i \in OptionalIdx :
                 Cardinality({j \in 1..Len(aug_name) : aug_name[j].tag = Optional[i].tag})
                   = IF Present(args[Optional[i].key]) THEN 1 ELSE 0

\* only the refractory period is set, to 0.0: one segment, tagged _rp_
C5_Witness ==
    /\ "name" \in aug_called
    /\ \A i \in OptionalIdx :
         Present(args[Optional[i].key]) <=> Optional[i].key = "refractory_period"
    /\ args.refractory_period = Some(0)
    /\ Len(aug_name) = 1
    /\ aug_name[1].tag = "_rp_"
    /\ NameText(aug_name) = "_rp_0.00"

\* C10: every returned pipeline ends with Volume then NumpyAsType, each once,
\* and the optional steps it holds precede them, each at most once, in the
\* order DropEvent, FlipLR, FlipUD, RefractoryPeriod, TimeJitter.
OrderedPipeline(r) ==
    LET p == r.augmentations
        n == Len(p)
    IN  /\ n >= 2
        /\ p[n - 1] = Volume
        /\ p[n] = NumpyAsType
        /\ \A i \in 1..n : Rank(p[i][1]) > 0
        /\ \A i \in 1..(n - 1) : Rank(p[i][1]) < Rank(p[i + 1][1])

C10_PipelineOrder ==
    /\ ("train" \in aug_called /\ Returned(aug_train)) => OrderedPipeline(aug_train)
    /\ ("test" \in aug_called /\ Returned(aug_test)) => OrderedPipeline(aug_test)

C10_Witness ==
    /\ "train" \in aug_called
    /\ Returned(aug_train)
    /\ Len(aug_train.augmentations) = 6
    /\ Includes(aug_train, "DropEvent")
    /\ Includes(aug_train, "FlipUD")
    /\ Includes(aug_train, "RefractoryPeriod")

(***************************************************************************)
(* Vocabulary of the claims about train, test and the epoch loop.          *)
(***************************************************************************)
IsTrainRecord(r) == r.tag = "train/loss"

IsTestLoss(r) == r.tag = "test/loss"

\* the train Metrics Records emitted so far, in order
TrainRecords == SelectSeq(log_writer, IsTrainRecord)

\* the test Metrics Records emitted so far, in order (by their loss scalar)
TestRecords == SelectSeq(log_writer, IsTestLoss)

\* positions in log_writer of the train records of epoch e
TrainPositions(e) ==
    {i \in 1..Len(log_writer) : IsTrainRecord(log_writer[i]) /\ log_writer[i].value[1] = e}

Ceil(n, d) == (n + d - 1) \div d

\* C6: with log_interval >= 1 a call of train processes every batch once, in
\* order, and emits ceil(num_batches / log_interval) train records, one for
\* each zero-based batch index that is a multiple of log_interval.
C6_TrainLogsEveryIntervalBatch ==
    args.log_interval >= 1 =>
        /\ optimizer_steps = train_calls * num_batches + batch_idx
        /\ \A e \in 1..train_calls :
             LET at == TrainPositions(e)
             IN  /\ Cardinality(at) = Ceil(num_batches, args.log_interval)
                 /\ {log_writer[i].value[2] : i \in at}
                      = {b \in 0..(num_batches - 1) : b % args.log_interval = 0}
                 /\ \A i, j \in at :
                      i < j => log_writer[i].value[2] < log_writer[j].value[2]

\* three batches logged every second batch: records for batches 0 and 2 only
C6_Witness ==
    /\ args.log_interval = 2
    /\ num_batches = 3
    /\ train_calls >= 1
    /\ pc = "test"
    /\ {log_writer[i].value[2] : i \in TrainPositions(1)} = {0, 2}

C7_StepIsRecordCount ==
    /\ global_step = Len(TrainRecords)
    /\ \A i \in 1..Len(TrainRecords) : TrainRecords[i].step = i - 1

\* C7: global_step always equals the number of train records emitted so far;
\* it is advanced by one with each train record and by nothing else, never
\* decreases, and the i-th train record of the run carries step i-1.
C7_GlobalStepCountsTrainRecords ==
    /\ []C7_StepIsRecordCount
    /\ [][/\ global_step' >= global_step
          /\ global_step' # global_step =>
                /\ global_step' = global_step + 1
                /\ Len(TrainRecords') = Len(TrainRecords) + 1]_vars

\* the run ended after two epochs that logged at least three train records
C7_Witness ==
    /\ pc = "done"
    /\ epoch = 2
    /\ global_step >= 3
    /\ Len(TrainRecords) = global_step
    /\ TrainRecords[global_step].value[1] = 2

\* the test record that closes epoch k counts the train records of epochs 1..k
C8_TestStepsCountTrainRecords ==
    /\ Len(TestRecords) = test_calls
    /\ \A k \in 1..Len(TestRecords) :
         TestRecords[k].step
           = Cardinality({i \in 1..Len(log_writer) :
                            IsTrainRecord(log_writer[i]) /\ log_writer[i].value[1] <= k})

\* C8: a call of test logs nothing per batch and emits one record (loss and
\* accuracy) when the test source is exhausted, tagged with the current
\* global_step, which it leaves unchanged; so the test record of epoch e
\* carries the number of train records of epochs 1..e.
C8_TestLogsOnceAtCurrentStep ==
    /\ [][(pc = "test" /\ pc' = "test") =>
            /\ log_writer' = log_writer
            /\ global_step' = global_step]_vars
    /\ [][(pc = "test" /\ pc' = "loop") =>
            /\ global_step' = global_step
            /\ test_idx = test_batches
            /\ Len(log_writer') = Len(log_writer) + 2
            /\ SubSeq(log_writer', 1, Len(log_writer)) = log_writer
            /\ log_writer'[Len(log_writer) + 1].tag = "test/loss"
            /\ log_writer'[Len(log_writer) + 1].step = global_step
            /\ log_writer'[Len(log_writer) + 2].tag = "test/accuracy"
            /\ log_writer'[Len(log_writer) + 2].step = global_step]_vars
    /\ []C8_TestStepsCountTrainRecords

\* two calls of test have returned; the second record carries a later step
C8_Witness ==
    /\ test_calls = 2
    /\ pc = "loop"
    /\ Len(TestRecords) = 2
    /\ TestRecords[1].step >= 1
    /\ TestRecords[2].step > TestRecords[1].step
    /\ TestRecords[2].step = global_step

\* C9 (as claimed): train of an epoch returns before test of that epoch
\* starts, test of epoch e returns before train of epoch e+1 starts, epochs
\* run in increasing order, and unless a collaborator fails the run ends in
\* Done after `epochs` calls of train and `epochs` calls of test.
C9_DriverRunsEpochsToDone ==
    /\ epoch \in 0..args.epochs
    /\ pc = "train" => train_calls = epoch - 1 /\ test_calls = epoch - 1
    /\ pc = "test" => train_calls = epoch /\ test_calls = epoch - 1
    /\ pc \in {"loop", "done"} => train_calls = epoch /\ test_calls = epoch
    /\ pc = "done" => train_calls = args.epochs /\ test_calls = args.epochs
    /\ pc = "raised" => exc = "CollaboratorError"

\* What holds of the loop once main has reached it with a usable interval:
\* the run ends, in Done or by a collaborator's failure.
LoopTerminates ==
    (pc = "loop" /\ args.log_interval >= 1) ~> (pc = "done" \/ exc = "CollaboratorError")

LoopOrder ==
    /\ epoch \in 0..args.epochs
    /\ pc = "train" => train_calls = epoch - 1 /\ test_calls = epoch - 1
    /\ pc = "test" => train_calls = epoch /\ test_calls = epoch - 1
    /\ pc \in {"loop", "done"} => train_calls = epoch /\ test_calls = epoch
    /\ pc = "done" => train_calls = args.epochs /\ test_calls = args.epochs

====
